---- MODULE Spec2Model ----
(***************************************************************************)
(* Model of the useFetchedData hook (hooks/useFetchedData.js) and of the   *)
(* App component (App.js) that consumes it.                                *)
(*                                                                         *)
(* An activation is one mounted instance of the hook.  Its three state     *)
(* fields are React state cells: a setter call appends an update to the    *)
(* cell's queue, and the next render of the (still mounted) component      *)
(* folds every queued update into the cell.  The hook is tested with       *)
(* renderHook of @testing-library/react, i.e. React 18, where all updates  *)
(* queued in one synchronous run are rendered together and where a         *)
(* component that has been unmounted is never rendered again.              *)
(*                                                                         *)
(* An optional value (null or a value) is the empty set or a singleton.    *)
(***************************************************************************)
EXTENDS Naturals, Sequences, FiniteSets

\* ---- bounds ------------------------------------------------------------
NumActivations == 2
NumItems == 1
MaxItems == 1
NumErrors == 1
AppMaxItems == 3

Activations == 1..NumActivations

\* Item { id, title, ... }: only id and title are read (App.js:14)
Items == {[id |-> k, title |-> <<"title", k>>] : k \in 1..NumItems}

\* the JSON arrays the endpoint can answer with
Payloads == UNION {[1..n -> Items] : n \in 0..MaxItems}

\* the arrays the mocked hook of App.test.js can return
AppPayloads == UNION {[1..n -> Items] : n \in 0..AppMaxItems}

\* errors a request can fail with before it is aborted
RequestErrors == {[name |-> "Error", message |-> <<"message", k>>] : k \in 1..NumErrors}

\* the error a fetch or a body read rejects with once its signal is aborted
AbortError == [name |-> "AbortError", message |-> <<"aborted">>]

Errors == RequestErrors \cup {AbortError}

null == {}

Some(v) == {v}

Value(o) == CHOOSE v \in o : TRUE

\* JavaScript truthiness of null, an array or an Error object
Truthy(o) == o # null

VARIABLES
    status,           \* "unborn", "mounted" or "unmounted"
    data,             \* useState(null): rendered value
    error,            \* useState(null): rendered value
    loading,          \* useState(true): rendered value
    pendingData,      \* updates queued by setData, not yet rendered
    pendingError,     \* updates queued by setError, not yet rendered
    pendingLoading,   \* updates queued by setLoading, not yet rendered
    pc,               \* position of the effect and of fetchData
    aborted,          \* abortController.signal.aborted
    abortCalls,       \* number of calls of abortController.abort
    fetchCalls,       \* number of calls of fetch
    setLoadingCalls,  \* number of calls of setLoading
    resolved,         \* the payload the request succeeded with, if any
    rejected,         \* the error the request failed with, if any
    response,         \* whether fetch has resolved with a response
    view              \* what App rendered last, if anything

vars == <<status, data, error, loading, pendingData, pendingError,
          pendingLoading, pc, aborted, abortCalls, fetchCalls,
          setLoadingCalls, resolved, rejected, response, view>>

\* ---- App ---------------------------------------------------------------

Message(e) == e.message

LoadingElement == [tag |-> "p", text |-> <<"Loading...">>, items |-> <<>>]

ErrorElement(e) == [tag |-> "p", text |-> <<"Error: ", Message(e)>>, items |-> <<>>]

ListElement(d) ==
    [tag |-> "ul", text |-> <<>>,
     items |-> [k \in 1..Len(d) |-> [key |-> d[k].id, text |-> d[k].title]]]

AppAlwaysLoading(d, e, l) ==
    <<LoadingElement>>
    \o (IF Truthy(e) THEN <<ErrorElement(Value(e))>> ELSE <<>>)
    \o (IF Truthy(d) THEN <<ListElement(Value(d))>> ELSE <<>>)

\* the children of <div className="App">
App(d, e, l) ==
    (IF l THEN <<LoadingElement>> ELSE <<>>)
    \o (IF Truthy(e) THEN <<ErrorElement(Value(e))>> ELSE <<>>)
    \o (IF Truthy(d) THEN <<ListElement(Value(d))>> ELSE <<>>)

\* ---- the hook ----------------------------------------------------------

\* the last update of a queue wins; an empty queue keeps the value
Fold(cur, q) == IF q = <<>> THEN cur ELSE q[Len(q)]

Init ==
    /\ status = [i \in Activations |-> "unborn"]
    /\ data = [i \in Activations |-> null]
    /\ error = [i \in Activations |-> null]
    /\ loading = [i \in Activations |-> TRUE]
    /\ pendingData = [i \in Activations |-> <<>>]
    /\ pendingError = [i \in Activations |-> <<>>]
    /\ pendingLoading = [i \in Activations |-> <<>>]
    /\ pc = [i \in Activations |-> "idle"]
    /\ aborted = [i \in Activations |-> FALSE]
    /\ abortCalls = [i \in Activations |-> 0]
    /\ fetchCalls = [i \in Activations |-> 0]
    /\ setLoadingCalls = [i \in Activations |-> 0]
    /\ resolved = [i \in Activations |-> null]
    /\ rejected = [i \in Activations |-> null]
    /\ response = [i \in Activations |-> FALSE]
    /\ view = [i \in Activations |-> null]

MountNotLoading(i) ==
    /\ status[i] = "unborn"
    /\ status' = [status EXCEPT ![i] = "mounted"]
    /\ data' = [data EXCEPT ![i] = null]
    /\ error' = [error EXCEPT ![i] = null]
    /\ loading' = [loading EXCEPT ![i] = FALSE]
    /\ view' = [view EXCEPT ![i] = Some(App(null, null, FALSE))]
    /\ UNCHANGED <<pendingData, pendingError, pendingLoading, pc, aborted,
                   abortCalls, fetchCalls, setLoadingCalls, resolved, rejected, response>>

\* first render of App: the three useState calls give the initial values
Mount(i) ==
    /\ status[i] = "unborn"
    /\ status' = [status EXCEPT ![i] = "mounted"]
    /\ data' = [data EXCEPT ![i] = null]
    /\ error' = [error EXCEPT ![i] = null]
    /\ loading' = [loading EXCEPT ![i] = TRUE]
    /\ view' = [view EXCEPT ![i] = Some(App(null, null, TRUE))]
    /\ UNCHANGED <<pendingData, pendingError, pendingLoading, pc, aborted,
                   abortCalls, fetchCalls, setLoadingCalls, resolved, rejected, response>>

\* the effect, run once after the first render: a new AbortController, and
\* fetchData() runs up to its first await
RunEffect(i) ==
    /\ status[i] = "mounted"
    /\ pc[i] = "idle"
    /\ aborted' = [aborted EXCEPT ![i] = FALSE]
    /\ fetchCalls' = [fetchCalls EXCEPT ![i] = @ + 1]
    /\ pc' = [pc EXCEPT ![i] = "fetching"]
    /\ UNCHANGED <<status, data, error, loading, pendingData, pendingError,
                   pendingLoading, abortCalls, setLoadingCalls, resolved,
                   rejected, view, response>>

FetchResolveClearsLoading(i) ==
    /\ pc[i] = "fetching"
    /\ ~aborted[i]
    /\ pc' = [pc EXCEPT ![i] = "decoding"]
    /\ response' = [response EXCEPT ![i] = TRUE]
    /\ pendingLoading' = [pendingLoading EXCEPT ![i] = Append(@, FALSE)]
    /\ setLoadingCalls' = [setLoadingCalls EXCEPT ![i] = @ + 1]
    /\ UNCHANGED <<status, data, error, loading, pendingData, pendingError,
                   aborted, abortCalls, fetchCalls, resolved, rejected, view>>

\* await fetch(...) resolves with a response; fetchData goes on to
\* await response.json()
FetchResolve(i) ==
    /\ pc[i] = "fetching"
    /\ ~aborted[i]
    /\ pc' = [pc EXCEPT ![i] = "decoding"]
    /\ response' = [response EXCEPT ![i] = TRUE]
    /\ UNCHANGED <<status, data, error, loading, pendingData, pendingError,
                   pendingLoading, aborted, abortCalls, fetchCalls,
                   setLoadingCalls, resolved, rejected, view>>

\* what a pending fetch or body read can reject with
Rejections(i) == IF aborted[i] THEN {AbortError} ELSE RequestErrors

\* catch (error) { setError(error) } finally { setLoading(false) }
Catch(i, e) ==
    /\ pendingError' = [pendingError EXCEPT ![i] = Append(@, Some(e))]
    /\ pendingLoading' = [pendingLoading EXCEPT ![i] = Append(@, FALSE)]
    /\ setLoadingCalls' = [setLoadingCalls EXCEPT ![i] = @ + 1]
    /\ pc' = [pc EXCEPT ![i] = "done"]
    /\ UNCHANGED <<status, data, error, loading, pendingData, aborted,
                   abortCalls, fetchCalls, resolved, view, response>>

FetchRejectWrapped(i, e) ==
    /\ pc[i] = "fetching"
    /\ e \in Rejections(i)
    /\ rejected' = [rejected EXCEPT ![i] = Some(e)]
    /\ Catch(i, [name |-> "Error", message |-> <<"request failed">>])

\* await fetch(...) rejects with e
FetchReject(i, e) ==
    /\ pc[i] = "fetching"
    /\ e \in Rejections(i)
    /\ rejected' = [rejected EXCEPT ![i] = Some(e)]
    /\ Catch(i, e)

JsonResolveNoData(i, p) ==
    /\ pc[i] = "decoding"
    /\ ~aborted[i]
    /\ p \in Payloads
    /\ resolved' = [resolved EXCEPT ![i] = Some(p)]
    /\ pendingLoading' = [pendingLoading EXCEPT ![i] = Append(@, FALSE)]
    /\ setLoadingCalls' = [setLoadingCalls EXCEPT ![i] = @ + 1]
    /\ pc' = [pc EXCEPT ![i] = "done"]
    /\ UNCHANGED <<status, data, error, loading, pendingData, pendingError,
                   aborted, abortCalls, fetchCalls, rejected, view, response>>

JsonResolveIgnoringAbort(i, p) ==
    /\ pc[i] = "decoding"
    /\ p \in Payloads
    /\ resolved' = [resolved EXCEPT ![i] = Some(p)]
    /\ pendingData' = [pendingData EXCEPT ![i] = Append(@, Some(p))]
    /\ pendingLoading' = [pendingLoading EXCEPT ![i] = Append(@, FALSE)]
    /\ setLoadingCalls' = [setLoadingCalls EXCEPT ![i] = @ + 1]
    /\ pc' = [pc EXCEPT ![i] = "done"]
    /\ UNCHANGED <<status, data, error, loading, pendingError, aborted,
                   abortCalls, fetchCalls, rejected, view, response>>

\* await response.json() resolves with p: setData(json), then
\* finally { setLoading(false) }
JsonResolve(i, p) ==
    /\ pc[i] = "decoding"
    /\ ~aborted[i]
    /\ p \in Payloads
    /\ resolved' = [resolved EXCEPT ![i] = Some(p)]
    /\ pendingData' = [pendingData EXCEPT ![i] = Append(@, Some(p))]
    /\ pendingLoading' = [pendingLoading EXCEPT ![i] = Append(@, FALSE)]
    /\ setLoadingCalls' = [setLoadingCalls EXCEPT ![i] = @ + 1]
    /\ pc' = [pc EXCEPT ![i] = "done"]
    /\ UNCHANGED <<status, data, error, loading, pendingError, aborted,
                   abortCalls, fetchCalls, rejected, view, response>>

JsonRejectKeepsLoading(i, e) ==
    /\ pc[i] = "decoding"
    /\ e \in Rejections(i)
    /\ rejected' = [rejected EXCEPT ![i] = Some(e)]
    /\ pendingError' = [pendingError EXCEPT ![i] = Append(@, Some(e))]
    /\ pc' = [pc EXCEPT ![i] = "done"]
    /\ UNCHANGED <<status, data, error, loading, pendingData, pendingLoading,
                   setLoadingCalls, aborted, abortCalls, fetchCalls, resolved,
                   view, response>>

JsonRejectAfterSetData(i, e) ==
    /\ pc[i] = "decoding"
    /\ e \in Rejections(i)
    /\ rejected' = [rejected EXCEPT ![i] = Some(e)]
    /\ pendingData' = [pendingData EXCEPT ![i] = Append(@, Some(<<>>))]
    /\ pendingError' = [pendingError EXCEPT ![i] = Append(@, Some(e))]
    /\ pendingLoading' = [pendingLoading EXCEPT ![i] = Append(@, FALSE)]
    /\ setLoadingCalls' = [setLoadingCalls EXCEPT ![i] = @ + 1]
    /\ pc' = [pc EXCEPT ![i] = "done"]
    /\ UNCHANGED <<status, data, error, loading, aborted, abortCalls,
                   fetchCalls, resolved, view, response>>

\* await response.json() rejects with e
JsonReject(i, e) ==
    /\ pc[i] = "decoding"
    /\ e \in Rejections(i)
    /\ rejected' = [rejected EXCEPT ![i] = Some(e)]
    /\ Catch(i, e)

HasPending(i) ==
    pendingData[i] # <<>> \/ pendingError[i] # <<>> \/ pendingLoading[i] # <<>>

\* the rendered output and the emptied queues of a render of activation i
Commit(i, d, e, l) ==
    /\ data' = [data EXCEPT ![i] = d]
    /\ error' = [error EXCEPT ![i] = e]
    /\ loading' = [loading EXCEPT ![i] = l]
    /\ view' = [view EXCEPT ![i] = Some(App(d, e, l))]

RenderAfterTeardown(i) ==
    /\ status[i] # "unborn"
    /\ HasPending(i)
    /\ Commit(i, Fold(data[i], pendingData[i]), Fold(error[i], pendingError[i]),
              Fold(loading[i], pendingLoading[i]))
    /\ pendingData' = [pendingData EXCEPT ![i] = <<>>]
    /\ pendingError' = [pendingError EXCEPT ![i] = <<>>]
    /\ pendingLoading' = [pendingLoading EXCEPT ![i] = <<>>]
    /\ UNCHANGED <<status, pc, aborted, abortCalls, fetchCalls,
                   setLoadingCalls, resolved, rejected, response>>

RenderRefetch(i) ==
    /\ status[i] = "mounted"
    /\ HasPending(i)
    /\ Commit(i, Fold(data[i], pendingData[i]), Fold(error[i], pendingError[i]),
              Fold(loading[i], pendingLoading[i]))
    /\ pendingData' = [pendingData EXCEPT ![i] = <<>>]
    /\ pendingError' = [pendingError EXCEPT ![i] = <<>>]
    /\ pendingLoading' = [pendingLoading EXCEPT ![i] = <<>>]
    /\ fetchCalls' = [fetchCalls EXCEPT ![i] = @ + 1]
    /\ UNCHANGED <<status, pc, aborted, abortCalls, setLoadingCalls, resolved,
                   rejected, response>>

RenderOneUpdate(i) ==
    /\ status[i] = "mounted"
    /\ HasPending(i)
    /\ IF pendingData[i] # <<>>
       THEN /\ Commit(i, Head(pendingData[i]), error[i], loading[i])
            /\ pendingData' = [pendingData EXCEPT ![i] = Tail(@)]
            /\ UNCHANGED <<pendingError, pendingLoading>>
       ELSE IF pendingError[i] # <<>>
       THEN /\ Commit(i, data[i], Head(pendingError[i]), loading[i])
            /\ pendingError' = [pendingError EXCEPT ![i] = Tail(@)]
            /\ UNCHANGED <<pendingData, pendingLoading>>
       ELSE /\ Commit(i, data[i], error[i], Head(pendingLoading[i]))
            /\ pendingLoading' = [pendingLoading EXCEPT ![i] = Tail(@)]
            /\ UNCHANGED <<pendingData, pendingError>>
    /\ UNCHANGED <<status, pc, aborted, abortCalls, fetchCalls,
                   setLoadingCalls, resolved, rejected, response>>

RenderRerunsEffect(i) ==
    /\ status[i] = "mounted"
    /\ HasPending(i)
    /\ Commit(i, Fold(data[i], pendingData[i]), Fold(error[i], pendingError[i]),
              Fold(loading[i], pendingLoading[i]))
    /\ pendingData' = [pendingData EXCEPT ![i] = <<>>]
    /\ pendingError' = [pendingError EXCEPT ![i] = <<>>]
    /\ pendingLoading' = [pendingLoading EXCEPT ![i] = <<>>]
    /\ fetchCalls' = [fetchCalls EXCEPT ![i] = @ + 1]
    /\ pc' = [pc EXCEPT ![i] = "fetching"]
    /\ UNCHANGED <<status, aborted, abortCalls, setLoadingCalls, resolved,
                   rejected, response>>

\* re-render of a mounted activation that has queued updates: the hook body
\* runs again, every useState returns its cell with all queued updates
\* applied, the effect is not run again (dependency list []), and App
\* renders the three fields
Render(i) ==
    /\ status[i] = "mounted"
    /\ HasPending(i)
    /\ Commit(i, Fold(data[i], pendingData[i]), Fold(error[i], pendingError[i]),
              Fold(loading[i], pendingLoading[i]))
    /\ pendingData' = [pendingData EXCEPT ![i] = <<>>]
    /\ pendingError' = [pendingError EXCEPT ![i] = <<>>]
    /\ pendingLoading' = [pendingLoading EXCEPT ![i] = <<>>]
    /\ UNCHANGED <<status, pc, aborted, abortCalls, fetchCalls,
                   setLoadingCalls, resolved, rejected, response>>

UnmountNoAbort(i) ==
    /\ status[i] = "mounted"
    /\ pc[i] # "idle"
    /\ status' = [status EXCEPT ![i] = "unmounted"]
    /\ UNCHANGED <<data, error, loading, pendingData, pendingError,
                   pendingLoading, pc, aborted, abortCalls, fetchCalls,
                   setLoadingCalls, resolved, rejected, view, response>>

UnmountSharedController(i) ==
    /\ status[i] = "mounted"
    /\ pc[i] # "idle"
    /\ status' = [status EXCEPT ![i] = "unmounted"]
    /\ abortCalls' = [abortCalls EXCEPT ![i] = @ + 1]
    /\ aborted' = [j \in Activations |-> TRUE]
    /\ UNCHANGED <<data, error, loading, pendingData, pendingError,
                   pendingLoading, pc, fetchCalls, setLoadingCalls, resolved,
                   rejected, view, response>>

\* unmount: the effect's cleanup calls abortController.abort().  The effect
\* has run by then (pending effects are flushed before the next commit).
Unmount(i) ==
    /\ status[i] = "mounted"
    /\ pc[i] # "idle"
    /\ status' = [status EXCEPT ![i] = "unmounted"]
    /\ abortCalls' = [abortCalls EXCEPT ![i] = @ + 1]
    /\ aborted' = [aborted EXCEPT ![i] = TRUE]
    /\ UNCHANGED <<data, error, loading, pendingData, pendingError,
                   pendingLoading, pc, fetchCalls, setLoadingCalls, resolved,
                   rejected, view, response>>

\* the request of activation i completes one of its awaits
Settle(i) ==
    \/ FetchResolve(i)
    \/ \E e \in Errors : FetchReject(i, e)
    \/ \E p \in Payloads : JsonResolve(i, p)
    \/ \E e \in Errors : JsonReject(i, e)

Next ==
    \/ \E i \in Activations : Mount(i)
    \/ \E i \in Activations : RunEffect(i)
    \/ \E i \in Activations : FetchResolve(i)
    \/ \E i \in Activations, e \in Errors : FetchReject(i, e)
    \/ \E i \in Activations, p \in Payloads : JsonResolve(i, p)
    \/ \E i \in Activations, e \in Errors : JsonReject(i, e)
    \/ \E i \in Activations : Render(i)
    \/ \E i \in Activations : Unmount(i)

Spec == Init /\ [][Next]_vars

\* The event loop runs every scheduled task: a pending effect, a scheduled
\* render and the continuation of a settled promise all run eventually, and
\* the network eventually answers or fails.  Unmounting is up to the user.
Fairness ==
    \A i \in Activations :
        /\ WF_vars(RunEffect(i))
        /\ WF_vars(Settle(i))
        /\ WF_vars(Render(i))

FairSpec == Spec /\ Fairness

\* ---- App over a mocked hook (App.test.js: jest.mock of the hook) -------

\* the hook's return value is mocked: any combination of the three fields,
\* the same for every App that is rendered
InitApp ==
    /\ status = [i \in Activations |-> "mounted"]
    /\ \E d \in {null} \cup {Some(p) : p \in AppPayloads},
          e \in {null} \cup {Some(x) : x \in Errors},
          l \in BOOLEAN :
            /\ data = [i \in Activations |-> d]
            /\ error = [i \in Activations |-> e]
            /\ loading = [i \in Activations |-> l]
    /\ pendingData = [i \in Activations |-> <<>>]
    /\ pendingError = [i \in Activations |-> <<>>]
    /\ pendingLoading = [i \in Activations |-> <<>>]
    /\ pc = [i \in Activations |-> "idle"]
    /\ aborted = [i \in Activations |-> FALSE]
    /\ abortCalls = [i \in Activations |-> 0]
    /\ fetchCalls = [i \in Activations |-> 0]
    /\ setLoadingCalls = [i \in Activations |-> 0]
    /\ resolved = [i \in Activations |-> null]
    /\ rejected = [i \in Activations |-> null]
    /\ response = [i \in Activations |-> FALSE]
    /\ view = [i \in Activations |-> null]

\* render(<App />) with the mocked hook
RenderApp(i) ==
    /\ status[i] = "mounted"
    /\ view[i] = null
    /\ view' = [view EXCEPT ![i] = Some(App(data[i], error[i], loading[i]))]
    /\ UNCHANGED <<status, data, error, loading, pendingData, pendingError,
                   pendingLoading, pc, aborted, abortCalls, fetchCalls,
                   setLoadingCalls, resolved, rejected, response>>

NextApp == \E i \in Activations : RenderApp(i)

SpecApp == InitApp /\ [][NextApp]_vars

\* ---- properties --------------------------------------------------------

State(i) == <<data[i], error[i], loading[i]>>

InitialState == <<null, null, TRUE>>

C2_SuccessShown ==
    /\ [](\A i \in Activations : data[i] # null => data[i] = resolved[i])
    /\ \A i \in Activations :
          (resolved[i] # null /\ status[i] = "mounted")
              ~> (State(i) = <<resolved[i], null, FALSE>> \/ status[i] = "unmounted")

C2_Witness ==
    \E i \in Activations : \E p \in Payloads :
        /\ Len(p) = MaxItems
        /\ resolved[i] = Some(p)
        /\ status[i] = "mounted"
        /\ State(i) = <<Some(p), null, FALSE>>

\* C3 as stated: a request that fails with E leads to failure = E.
C3_Original ==
    \A i \in Activations :
        (rejected[i] # null) ~> (error[i] = rejected[i])

\* C3 amended: a failure in the state is always the very error the request
\* failed with, and a request that fails with E on an activation that is not
\* torn down before the update is rendered leads to failure = E.
C3_FailureVerbatim ==
    /\ [](\A i \in Activations : error[i] # null => error[i] = rejected[i])
    /\ \A i \in Activations :
          (rejected[i] # null /\ status[i] = "mounted")
              ~> (error[i] = rejected[i] \/ status[i] = "unmounted")

C3_Witness ==
    \E i \in Activations : \E e \in RequestErrors :
        /\ rejected[i] = Some(e)
        /\ ~response[i]
        /\ status[i] = "mounted"
        /\ error[i] = Some(e)

\* C4: an activation whose request has not completed is in the state
\* (none, none, true), whatever the other activations have done.
C4_InitialState ==
    \A i \in Activations :
        (status[i] # "unborn" /\ pc[i] # "done") => State(i) = InitialState

C4_Witness ==
    \E i \in Activations : \E j \in Activations :
        /\ i # j
        /\ status[j] = "unmounted"
        /\ data[j] # null
        /\ status[i] = "mounted"
        /\ pc[i] = "fetching"
        /\ State(i) = InitialState

\* C5: abort has been called exactly once on an unmounted activation and
\* never on an activation that is not unmounted.
C5_AbortOnce ==
    \A i \in Activations :
        abortCalls[i] = IF status[i] = "unmounted" THEN 1 ELSE 0

C5_Witness ==
    \E i \in Activations : \E j \in Activations :
        /\ status[i] = "unmounted" /\ pc[i] = "fetching" /\ abortCalls[i] = 1
        /\ status[j] = "unmounted" /\ resolved[j] # null /\ abortCalls[j] = 1


InFlight(i) == pc[i] \in {"fetching", "decoding"}

\* C7: fetch is called once when the effect runs and never again, so an
\* activation has at most one request, also after a failure.
C7_OneRequest ==
    \A i \in Activations :
        /\ fetchCalls[i] = IF pc[i] = "idle" THEN 0 ELSE 1
        /\ InFlight(i) => fetchCalls[i] = 1

C7_Witness ==
    \E i \in Activations :
        /\ status[i] = "mounted"
        /\ pc[i] = "done"
        /\ rejected[i] # null
        /\ error[i] # null
        /\ fetchCalls[i] = 1

IsLoadingText(el) == el.tag = "p" /\ el.text = <<"Loading...">>

IsErrorText(el) == el.tag = "p" /\ Len(el.text) = 2 /\ el.text[1] = "Error: "

IsList(el) == el.tag = "ul"

Count(v, P(_)) == Cardinality({k \in 1..Len(v) : P(v[k])})

\* C8: App renders the loading text iff loading, the text "Error: " followed
\* by the error's message iff error is set, and a list with one entry per
\* item of data, in order, iff data is set.
C8_AppRenders ==
    \A i \in Activations :
        view[i] # null =>
            LET v == Value(view[i]) IN
            /\ Count(v, IsLoadingText) = IF loading[i] THEN 1 ELSE 0
            /\ Count(v, IsErrorText) = IF error[i] # null THEN 1 ELSE 0
            /\ error[i] # null =>
                  \E k \in 1..Len(v) :
                      IsErrorText(v[k]) /\ v[k].text[2] = Value(error[i]).message
            /\ Count(v, IsList) = IF data[i] # null THEN 1 ELSE 0
            /\ data[i] # null =>
                  \E k \in 1..Len(v) :
                      /\ IsList(v[k])
                      /\ Len(v[k].items) = Len(Value(data[i]))
                      /\ \A n \in 1..Len(v[k].items) :
                            /\ v[k].items[n].text = Value(data[i])[n].title
                            /\ v[k].items[n].key = Value(data[i])[n].id
            /\ Len(v) = Count(v, IsLoadingText) + Count(v, IsErrorText)
                          + Count(v, IsList)

\* App has rendered a combination the hook itself never returns
C8_Witness ==
    \E i \in Activations :
        /\ view[i] # null
        /\ ~loading[i]
        /\ error[i] # null
        /\ data[i] # null
        /\ Len(Value(data[i])) = AppMaxItems
        /\ Len(Value(view[i])) = 2

\* C9 as stated: every failure of the request leads to the state
\* (none, error, false).
C9_Original ==
    \A i \in Activations :
        (rejected[i] # null) ~> (State(i) = <<null, rejected[i], FALSE>>)

\* C9 amended: a failed request never sets the payload and always calls
\* setLoading(false), also when it is the decoding of the body that fails,
\* and on an activation that is not torn down before the update is rendered
\* it leads to the state (none, error, false).
C9_FailureState ==
    /\ [](\A i \in Activations :
            rejected[i] # null =>
                /\ data[i] = null
                /\ pendingData[i] = <<>>
                /\ resolved[i] = null
                /\ loading[i] => pendingLoading[i] = <<FALSE>>)
    /\ \A i \in Activations :
          (rejected[i] # null /\ status[i] = "mounted")
              ~> (State(i) = <<null, rejected[i], FALSE>> \/ status[i] = "unmounted")

C9_Witness ==
    \E i \in Activations : \E e \in RequestErrors :
        /\ response[i]
        /\ rejected[i] = Some(e)
        /\ status[i] = "mounted"
        /\ State(i) = <<null, Some(e), FALSE>>

\* C10: every rendered state of an activation is (none, none, true),
\* (P, none, false) or (none, E, false).
C10_ThreeStates ==
    \A i \in Activations :
        status[i] # "unborn" =>
            \/ State(i) = InitialState
            \/ data[i] # null /\ error[i] = null /\ ~loading[i]
            \/ data[i] = null /\ error[i] # null /\ ~loading[i]

C10_Witness ==
    \E i \in Activations : \E j \in Activations :
        /\ status[i] = "mounted" /\ data[i] # null /\ ~loading[i]
        /\ status[j] = "mounted" /\ error[j] # null /\ ~loading[j]


\* activation i was torn down while its request was pending
TornDownPending(i) ==
    /\ status[i] = "unmounted"
    /\ pc[i] # "done" \/ rejected[i] = Some(AbortError)

\* C11: once an activation is torn down while its request is pending, the
\* only step its request can still take is to reject with the abort error:
\* it neither yields a response nor a payload, and no payload of it is ever
\* queued for or rendered into the state.
C11_CancelledAtTeardown ==
    /\ [](\A i \in Activations :
            TornDownPending(i) =>
                /\ resolved[i] = null
                /\ pendingData[i] = <<>>
                /\ data[i] = null)
    /\ [][\A i \in Activations :
            (status[i] = "unmounted" /\ pc[i] # "done" /\ pc'[i] # pc[i]) =>
                /\ pc'[i] = "done"
                /\ rejected'[i] = Some(AbortError)
                /\ resolved'[i] = null]_vars

\* torn down while the body was being decoded, and the request has ended
C11_Witness ==
    \E i \in Activations :
        /\ status[i] = "unmounted"
        /\ response[i]
        /\ pc[i] = "done"
        /\ rejected[i] = Some(AbortError)
        /\ resolved[i] = null
        /\ data[i] = null


\* everything that belongs to activation i
Fields(i) ==
    <<status[i], data[i], error[i], loading[i], pendingData[i],
      pendingError[i], pendingLoading[i], pc[i], aborted[i], abortCalls[i],
      fetchCalls[i], setLoadingCalls[i], resolved[i], rejected[i],
      response[i], view[i]>>

\* C12: a step of one activation, its unmount in particular, changes nothing
\* of any other activation, and the signal of an activation is aborted only
\* by that activation's own unmount.
C12_Independent ==
    /\ [](\A j \in Activations : aborted[j] => status[j] = "unmounted")
    /\ [][\A i \in Activations : \A j \in Activations :
            (i # j /\ Fields(i)' # Fields(i)) => Fields(j)' = Fields(j)]_vars

\* one activation was torn down while pending; another one, still mounted,
\* has received and rendered its payload
C12_Witness ==
    \E i \in Activations : \E j \in Activations :
        /\ i # j
        /\ status[i] = "unmounted"
        /\ rejected[i] = Some(AbortError)
        /\ status[j] = "mounted"
        /\ ~aborted[j]
        /\ data[j] # null
        /\ data[j] = resolved[j]


\* C13: in no state of an activation are payload and failure both set, be it
\* rendered or queued: a request calls setData or setError, never both.
C13_PayloadXorFailure ==
    \A i \in Activations :
        /\ ~(data[i] # null /\ error[i] # null)
        /\ ~(pendingData[i] # <<>> /\ pendingError[i] # <<>>)
        /\ ~(data[i] # null /\ pendingError[i] # <<>>)
        /\ ~(error[i] # null /\ pendingData[i] # <<>>)
        /\ Len(pendingData[i]) + Len(pendingError[i]) <= 1

\* a response arrived but its body failed to decode, and the activation was
\* unmounted after the failure was rendered; another one holds a payload
C13_Witness ==
    \E i \in Activations : \E j \in Activations :
        /\ response[i]
        /\ error[i] # null
        /\ data[i] = null
        /\ status[i] = "unmounted"
        /\ data[j] # null
        /\ error[j] = null


\* C14: once inFlight is false, no step changes payload, failure or
\* inFlight of that activation.
C14_FinalOnceCleared ==
    [][\A i \in Activations :
          (status[i] # "unborn" /\ ~loading[i]) =>
              /\ data'[i] = data[i]
              /\ error'[i] = error[i]
              /\ loading'[i] = loading[i]]_vars

\* an activation unmounted, and its signal aborted, after its request had
\* completed and been rendered
C14_Witness ==
    \E i \in Activations :
        /\ ~loading[i]
        /\ status[i] = "unmounted"
        /\ abortCalls[i] = 1
        /\ aborted[i]
        /\ resolved[i] # null
        /\ State(i) = <<resolved[i], null, FALSE>>

====
